---- MODULE Spec2Model ----
(***************************************************************************)
(* A model of app.py, the allocation merger: one top-to-bottom run of the  *)
(* script over the uploaded allocation exports, the optional consolidated  *)
(* brief and the event code.                                               *)
(*                                                                         *)
(* Values.  A spreadsheet cell / Python value is a tagged record:          *)
(*   NaN               a blank cell (pandas NaN)                           *)
(*   Num(n)            a number                                            *)
(*   Txt(s)            a text (a TLA+ string)                              *)
(*   Str(cs)           the text astype(str) makes of a Store Number, kept  *)
(*                     as its sequence of characters so that the order of  *)
(*                     two such texts is computed character by character   *)
(*   NoneVal           an openpyxl cell that was never given a value       *)
(* A dict is a function whose DOMAIN is its set of keys.  A DataFrame is   *)
(* [columns |-> sequence of names, rows |-> sequence of (name -> cell)].   *)
(***************************************************************************)
EXTENDS Integers, Sequences, FiniteSets, TLC

VARIABLES alloc_files, brief_file, event_code,
          pc, i, all_dfs, meta, brief_dict, master_df, buffer,
          messages, download

vars == <<alloc_files, brief_file, event_code, pc, i, all_dfs, meta,
          brief_dict, master_df, buffer, messages, download>>

\* ------------------------------------------------------------------ values

NaN == [t |-> "nan"]
NoneVal == [t |-> "none"]
Num(n) == [t |-> "num", n |-> n]
Txt(s) == [t |-> "txt", s |-> s]
Str(cs) == [t |-> "str", cs |-> cs]

\* pd.isna / the "null" that groupby's first and sum skip
IsNull(c) == c.t = "nan"

EmptyDict == <<>>

\* dict.update: the keys of v are set, the other keys of d are kept
DictUpdate(d, v) ==
    [k \in (DOMAIN d) \cup (DOMAIN v) |-> IF k \in DOMAIN v THEN v[k] ELSE d[k]]

\* dict.get(k, default)
DictGet(d, k, default) == IF k \in DOMAIN d THEN d[k] ELSE default

SeqToSet(s) == {s[k] : k \in DOMAIN s}

\* ------------------------------------------------------------------ constants

KEY_COLS ==
    << "Store Number", "Store Name", "Address Line 1", "Address Line 2",
       "City or Town", "County", "Country", "Post Code", "Region / Area",
       "Location Type", "Trading Format" >>

LABELS ==
    << "POS Code", "Kit Name", "Project Description", "Part", "Supplier",
       "Brief Description", "Total (inc Overs)", "Total Allocations", "Overs" >>

KeySet == SeqToSet(KEY_COLS)

\* KEY_COLS.index("Trading Format") + 1
LABEL_COL_XL == (CHOOSE k \in DOMAIN KEY_COLS : KEY_COLS[k] = "Trading Format")
ITEM_START_XL == LABEL_COL_XL + 1

\* ------------------------------------------------------------------ texts

\* str(int): the decimal digits of a natural number, most significant first
Digit(d) == << "0", "1", "2", "3", "4", "5", "6", "7", "8", "9" >>[d + 1]

RECURSIVE IntToStr(_)
IntToStr(n) == IF n < 10 THEN << Digit(n) >>
               ELSE IntToStr(n \div 10) \o << Digit(n % 10) >>

\* The code point of each character a Store Number text can hold
Ord(c) == CASE c = "." -> 46
            [] c = "0" -> 48 [] c = "1" -> 49 [] c = "2" -> 50 [] c = "3" -> 51
            [] c = "4" -> 52 [] c = "5" -> 53 [] c = "6" -> 54 [] c = "7" -> 55
            [] c = "8" -> 56 [] c = "9" -> 57
            [] c = "a" -> 97 [] c = "n" -> 110

\* Python's str < str: by code point, a proper prefix first
RECURSIVE StrLess(_, _)
StrLess(a, b) ==
    IF b = <<>> THEN FALSE
    ELSE IF a = <<>> THEN TRUE
    ELSE IF Ord(Head(a)) # Ord(Head(b)) THEN Ord(Head(a)) < Ord(Head(b))
    ELSE StrLess(Tail(a), Tail(b))

\* str.strip() on the texts an upload form or a brief cell holds here
Strip(s) == CASE s = " " -> ""
              [] s = "  " -> ""
              [] s = " E0625 " -> "E0625"
              [] s = " X001 " -> "X001"
              [] s = "X002 " -> "X002"
              [] OTHER -> s

\* str(value) of a header cell: a blank cell (NaN) prints as "nan"
PyStr(c) == IF IsNull(c) THEN "nan" ELSE c.s

\* pandas' name for a column whose header cell is blank, by 0-based position
UnnamedName(idx) == CASE idx = 11 -> "Unnamed: 11"
                      [] idx = 12 -> "Unnamed: 12"
                      [] idx = 13 -> "Unnamed: 13"
                      [] idx = 14 -> "Unnamed: 14"

\* ------------------------------------------------------------------ reader
(***************************************************************************)
(* An allocation export, as the two read_excel calls see it:               *)
(*   header_row  the cells of sheet row 6 past the key columns (the item   *)
(*               reference codes; the first 11 cells are KEY_COLS)         *)
(*   brief_row   the cells of sheet row 1 past the key columns             *)
(*   overs_row   the cells of sheet row 4 past the key columns             *)
(*   body        the rows below the header: key |-> (key column -> cell),  *)
(*               item |-> the cells past the key columns                   *)
(***************************************************************************)
BRIEF_ROW == 1
OVERS_ROW == 4
HEADER_ROW == 6

\* raw.shape[1]
RawWidth(file) == Len(KEY_COLS) + Len(file.header_row)

\* raw.iloc[r, col_idx] for the rows and the columns the loop reads
RawCell(file, r, col_idx) ==
    LET j == col_idx - Len(KEY_COLS) + 1
    IN  CASE r = BRIEF_ROW -> file.brief_row[j]
          [] r = OVERS_ROW -> file.overs_row[j]
          [] r = HEADER_ROW -> file.header_row[j]

\* The column names pd.read_excel(file, header=6) gives the item columns
ItemNames(file) ==
    [j \in 1..Len(file.header_row) |->
        IF IsNull(file.header_row[j])
        THEN UnnamedName(Len(KEY_COLS) + j - 1)
        ELSE file.header_row[j].s]

\* pd.read_excel(file, header=6)
ReadExcel(file) ==
    LET names == ItemNames(file)
        cols == KEY_COLS \o names
        pos(c) == CHOOSE j \in DOMAIN names : names[j] = c
    IN  [columns |-> cols,
         rows |-> [k \in 1..Len(file.body) |->
                     [c \in SeqToSet(cols) |->
                         IF c \in KeySet THEN file.body[k].key[c]
                         ELSE file.body[k].item[pos(c)]]]]

\* The dtype read_excel infers for a column of whole numbers and blanks
ColumnDtype(cells) ==
    IF \E k \in DOMAIN cells : IsNull(cells[k]) THEN "float64" ELSE "int64"

\* ElementStr with a blank Store Number left null instead of the text "nan"
ElementStr_KeepNull(c, dtype) ==
    IF IsNull(c) THEN NaN
    ELSE IF dtype = "int64" THEN Str(IntToStr(c.n))
    ELSE Str(IntToStr(c.n) \o << ".", "0" >>)

\* str() of one element of a numeric column of that dtype
ElementStr(c, dtype) ==
    IF dtype = "int64" THEN Str(IntToStr(c.n))
    ELSE IF IsNull(c) THEN Str(<< "n", "a", "n" >>)
    ELSE Str(IntToStr(c.n) \o << ".", "0" >>)

\* df["Store Number"] = df["Store Number"].astype(str)
StoreNumberAsStr(df) ==
    LET col == [k \in DOMAIN df.rows |-> df.rows[k]["Store Number"]]
        dtype == ColumnDtype(col)
    IN  [df EXCEPT !.rows =
            [k \in DOMAIN df.rows |->
                [df.rows[k] EXCEPT !["Store Number"] = ElementStr(col[k], dtype)]]]

\* The meta dict the loop over range(len(KEY_COLS), raw.shape[1]) builds:
\* a blank reference cell is skipped, a later column overwrites an earlier
\* one of the same reference
MetaPart(file) ==
    LET idxs == Len(KEY_COLS) .. (RawWidth(file) - 1)
        ref(ci) == PyStr(RawCell(file, HEADER_ROW, ci))
        kept == {ci \in idxs : ref(ci) # "nan"}
        last(r) == CHOOSE ci \in kept :
                      /\ ref(ci) = r
                      /\ \A cj \in kept : ref(cj) = r => cj <= ci
    IN  [r \in {ref(ci) : ci \in kept} |->
            [brief_description |-> RawCell(file, BRIEF_ROW, last(r)),
             overs |-> IF IsNull(RawCell(file, OVERS_ROW, last(r)))
                       THEN Num(0)
                       ELSE RawCell(file, OVERS_ROW, last(r))]]

extract_alloc_data_and_meta(file) ==
    [df |-> StoreNumberAsStr(ReadExcel(file)), meta |-> MetaPart(file)]

\* ------------------------------------------------------------------ merger

\* The columns of pd.concat(dfs, sort=False): in order of first appearance
RECURSIVE ConcatColumns(_)
ConcatColumns(dfs) ==
    IF dfs = <<>> THEN <<>>
    ELSE LET init == ConcatColumns(SubSeq(dfs, 1, Len(dfs) - 1))
             lastc == dfs[Len(dfs)].columns
         IN  init \o SelectSeq(lastc, LAMBDA c : c \notin SeqToSet(init))

RECURSIVE ConcatRows(_)
ConcatRows(dfs) ==
    IF dfs = <<>> THEN <<>> ELSE Head(dfs).rows \o ConcatRows(Tail(dfs))

\* pd.concat(dfs, ignore_index=True, sort=False): a column a file lacks is NaN
Concat(dfs) ==
    LET cols == ConcatColumns(dfs)
        rows == ConcatRows(dfs)
    IN  [columns |-> cols,
         rows |-> [k \in DOMAIN rows |->
                     [c \in SeqToSet(cols) |->
                         IF c \in DOMAIN rows[k] THEN rows[k][c] ELSE NaN]]]

\* pd.to_numeric(errors="coerce") on one cell: a text that is no number is NaN
ToNumeric(c) == IF c.t = "num" THEN c ELSE NaN

\* AggFirst taking the group's first cell, null or not
AggFirst_Head(cells) == IF cells = <<>> THEN NaN ELSE Head(cells)

\* groupby's "first": the first non-null cell, None when there is none
RECURSIVE AggFirst(_)
AggFirst(cells) ==
    IF cells = <<>> THEN NaN
    ELSE IF ~IsNull(Head(cells)) THEN Head(cells)
    ELSE AggFirst(Tail(cells))

\* AggSum keeping one value of the group instead of adding them up
AggSum_First(cells) == IF IsNull(AggFirst(cells)) THEN 0 ELSE AggFirst(cells).n

\* groupby's "sum": nulls are skipped, the empty sum is 0
RECURSIVE AggSum(_)
AggSum(cells) ==
    IF cells = <<>> THEN 0
    ELSE (IF IsNull(Head(cells)) THEN 0 ELSE Head(cells).n) + AggSum(Tail(cells))

\* The group keys in groupby's order (sort=True): ascending, as texts
RECURSIVE SortedKeys(_)
SortedKeys(S) ==
    IF S = {} THEN <<>>
    ELSE LET m == CHOOSE x \in S : \A y \in S \ {x} : StrLess(x.cs, y.cs)
         IN  << m >> \o SortedKeys(S \ {m})

\* combined.groupby("Store Number", as_index=False).agg(agg): rows whose key
\* is null are dropped (dropna=True), one row per remaining key
GroupByAgg(combined) ==
    LET keys == {combined.rows[k]["Store Number"] : k \in
                    {k \in DOMAIN combined.rows :
                        ~IsNull(combined.rows[k]["Store Number"])}}
        order == SortedKeys(keys)
        aggcols == SelectSeq(combined.columns, LAMBDA c : c # "Store Number")
        group(key) == SelectSeq(combined.rows,
                                LAMBDA r : r["Store Number"] = key)
        column(key, c) == [k \in DOMAIN group(key) |-> group(key)[k][c]]
    IN  [columns |-> << "Store Number" >> \o aggcols,
         rows |-> [g \in DOMAIN order |->
                     [c \in SeqToSet(combined.columns) |->
                         IF c = "Store Number" THEN order[g]
                         ELSE IF c \in KeySet THEN AggFirst(column(order[g], c))
                         ELSE Num(AggSum(column(order[g], c)))]]]

\* Insert row r into rows already sorted by Store Number (a stable sort)
RECURSIVE InsertSorted(_, _)
InsertSorted(rows, r) ==
    IF rows = <<>> THEN << r >>
    ELSE IF StrLess(r["Store Number"].cs, Head(rows)["Store Number"].cs)
         THEN << r >> \o rows
         ELSE << Head(rows) >> \o InsertSorted(Tail(rows), r)

RECURSIVE SortRows(_)
SortRows(rows) ==
    IF rows = <<>> THEN <<>>
    ELSE InsertSorted(SortRows(SubSeq(rows, 1, Len(rows) - 1)), rows[Len(rows)])

\* master.sort_values("Store Number").reset_index(drop=True)
SortValues(df) == [df EXCEPT !.rows = SortRows(df.rows)]

merge_allocations(dfs) ==
    LET combined == Concat(dfs)
        coerced == [combined EXCEPT !.rows =
                      [k \in DOMAIN combined.rows |->
                          [c \in SeqToSet(combined.columns) |->
                              IF c \in KeySet THEN combined.rows[k][c]
                              ELSE ToNumeric(combined.rows[k][c])]]]
    IN  SortValues(GroupByAgg(coerced))

\* ------------------------------------------------------------------ brief loader

BRIEF_COLS == << "Brief Ref", "POS Code", "Project Description", "Part", "Supplier" >>

\* MissingBriefCols reporting only the first missing column
MissingBriefCols_First(cb) ==
    LET missing == SelectSeq(BRIEF_COLS, LAMBDA c : c \notin SeqToSet(cb.columns))
    IN  IF missing = <<>> THEN <<>> ELSE << Head(missing) >>

\* [c for c in cols if c not in cb.columns]
MissingBriefCols(cb) ==
    SelectSeq(BRIEF_COLS, LAMBDA c : c \notin SeqToSet(cb.columns))

\* The loop over cb.dropna(subset=["Brief Ref"]): setdefault keeps the first
\* row of each stripped reference
RECURSIVE BriefRows(_, _)
BriefRows(rows, acc) ==
    IF rows = <<>> THEN acc
    ELSE LET row == Head(rows)
             ref == Strip(PyStr(row["Brief Ref"]))
         IN  IF IsNull(row["Brief Ref"]) \/ ref \in DOMAIN acc
             THEN BriefRows(Tail(rows), acc)
             ELSE BriefRows(Tail(rows),
                            DictUpdate(acc,
                                [r \in {ref} |->
                                    [pos_code |-> row["POS Code"],
                                     project_description |-> row["Project Description"],
                                     part |-> row["Part"],
                                     supplier |-> row["Supplier"]]]))

\* load_consolidated_brief: the mapping it returns and the st.error calls it
\* makes (each the sequence of missing column names it joins with ", ")
load_consolidated_brief(file) ==
    IF file = NoneVal THEN [dict |-> EmptyDict, errors |-> <<>>]
    ELSE IF MissingBriefCols(file) # <<>>
    THEN [dict |-> EmptyDict,
          errors |-> << [kind |-> "error", missing |-> MissingBriefCols(file)] >>]
    ELSE [dict |-> BriefRows(file.rows, EmptyDict), errors |-> <<>>]

\* ------------------------------------------------------------------ enricher

\* for k, v in part.items(): meta.setdefault(k, {}).update(v)
MergeMeta(m, part) ==
    [k \in (DOMAIN m) \cup (DOMAIN part) |->
        IF k \in DOMAIN part
        THEN DictUpdate(DictGet(m, k, EmptyDict), part[k])
        ELSE m[k]]

\* ------------------------------------------------------------------ writer

\* [c for c in master_df.columns if c not in KEY_COLS]
item_cols(df) == SelectSeq(df.columns, LAMBDA c : c \notin KeySet)

\* master_df[item].fillna(0).sum()
RECURSIVE ColumnSum(_, _)
ColumnSum(rows, item) ==
    IF rows = <<>> THEN 0
    ELSE (IF IsNull(Head(rows)[item]) THEN 0 ELSE Head(rows)[item].n)
         + ColumnSum(Tail(rows), item)

\* HeaderCell with Total (inc Overs) left at the allocated total
HeaderCell_NoOvers(label, item, df, m) ==
    LET data == DictGet(m, item, EmptyDict)
        overs_val == DictGet(data, "overs", Num(0))
        total_alloc == ColumnSum(df.rows, item)
    IN  CASE label = "POS Code" -> DictGet(data, "pos_code", Txt(""))
          [] label = "Project Description" ->
                 DictGet(data, "project_description", Txt(""))
          [] label = "Part" -> DictGet(data, "part", Txt(""))
          [] label = "Supplier" -> DictGet(data, "supplier", Txt(""))
          [] label = "Brief Description" ->
                 DictGet(data, "brief_description", Txt(""))
          [] label = "Total (inc Overs)" -> Num(total_alloc)
          [] label = "Total Allocations" -> Num(total_alloc)
          [] label = "Overs" -> overs_val
          [] OTHER -> NoneVal

\* The value the label's branch gives the cell of one item column
HeaderCell(label, item, df, m) ==
    LET data == DictGet(m, item, EmptyDict)
        overs_val == DictGet(data, "overs", Num(0))
        total_alloc == ColumnSum(df.rows, item)
    IN  CASE label = "POS Code" -> DictGet(data, "pos_code", Txt(""))
          [] label = "Project Description" ->
                 DictGet(data, "project_description", Txt(""))
          [] label = "Part" -> DictGet(data, "part", Txt(""))
          [] label = "Supplier" -> DictGet(data, "supplier", Txt(""))
          [] label = "Brief Description" ->
                 DictGet(data, "brief_description", Txt(""))
          [] label = "Total (inc Overs)" -> Num(total_alloc + overs_val.n)
          [] label = "Total Allocations" -> Num(total_alloc)
          [] label = "Overs" -> overs_val
          [] OTHER -> NoneVal

RECURSIVE SetToSeq(_)
SetToSeq(S) ==
    IF S = {} THEN <<>>
    ELSE LET x == CHOOSE y \in S : TRUE IN << x >> \o SetToSeq(S \ {x})

\* write_with_metadata giving every reference of the metadata a header column,
\* in the table or not
write_with_metadata_MetaCols(df, m, code) ==
    LET items == item_cols(df) \o SetToSeq((DOMAIN m) \ SeqToSet(df.columns))
        rows_xl == 2 .. (Len(LABELS) + 1)
    IN  [row1 |-> << Txt("Project Ref"), Txt(code) >>,
         label_col |-> [r \in rows_xl |-> LABELS[r - 1]],
         item_cells |-> [r \in rows_xl |->
                            [ic \in DOMAIN items |->
                                IF items[ic] \in SeqToSet(df.columns)
                                THEN HeaderCell(LABELS[r - 1], items[ic], df, m)
                                ELSE DictGet(m[items[ic]], "pos_code", Txt(""))]],
         table_row |-> Len(LABELS) + 3,
         table |-> df]

\* STARTROW = len(LABELS) + 2
STARTROW == Len(LABELS) + 2

\* write_with_metadata: the worksheet it builds.  row1 holds cells A1 and B1;
\* label_col[row_xl] is the cell of column LABEL_COL_XL in sheet row row_xl
\* (rows 2-10) and item_cells[row_xl][ic] the cell of column ITEM_START_XL +
\* ic - 1 in that row; table is the frame to_excel writes from sheet row
\* STARTROW + 1 down, its header row first.
write_with_metadata(df, m, code) ==
    LET items == item_cols(df)
        rows_xl == 2 .. (Len(LABELS) + 1)
    IN  [row1 |-> << Txt("Project Ref"), Txt(code) >>,
         label_col |-> [r \in rows_xl |-> LABELS[r - 1]],
         item_cells |-> [r \in rows_xl |->
                            [ic \in DOMAIN items |->
                                HeaderCell(LABELS[r - 1], items[ic], df, m)]],
         table_row |-> STARTROW + 1,
         table |-> df]

\* ------------------------------------------------------------------ the run
(***************************************************************************)
(* pc is the place the script has reached:                                 *)
(*   "check_files"  line 217     "check_event"  line 220                   *)
(*   "read"         the loop of lines 229-234, i the next file             *)
(*   "brief"        lines 237-239    "merge"  line 241                     *)
(*   "write"        line 243         "offer"  lines 245-253                *)
(*   "done"         the script ended "stopped"  st.stop() was called       *)
(***************************************************************************)

\* if not alloc_files: st.info(...); st.stop()
CheckFiles ==
    /\ pc = "check_files"
    /\ IF alloc_files = <<>>
       THEN /\ messages' = Append(messages, [kind |-> "info"])
            /\ pc' = "stopped"
       ELSE /\ messages' = messages
            /\ pc' = "check_event"
    /\ UNCHANGED <<alloc_files, brief_file, event_code, i, all_dfs, meta,
                   brief_dict, master_df, buffer, download>>

\* CheckEvent testing the event code as typed, not stripped
CheckEvent_NoStrip ==
    /\ pc = "check_event"
    /\ IF event_code = ""
       THEN /\ messages' = Append(messages, [kind |-> "warning"])
            /\ pc' = "stopped"
       ELSE /\ messages' = messages
            /\ pc' = "read"
    /\ UNCHANGED <<alloc_files, brief_file, event_code, i, all_dfs, meta,
                   brief_dict, master_df, buffer, download>>

\* if not event_code.strip(): st.warning(...); st.stop()
CheckEvent ==
    /\ pc = "check_event"
    /\ IF Strip(event_code) = ""
       THEN /\ messages' = Append(messages, [kind |-> "warning"])
            /\ pc' = "stopped"
       ELSE /\ messages' = messages
            /\ pc' = "read"
    /\ UNCHANGED <<alloc_files, brief_file, event_code, i, all_dfs, meta,
                   brief_dict, master_df, buffer, download>>

\* One iteration of: for i, up in enumerate(alloc_files, start=1)
ReadFile ==
    /\ pc = "read"
    /\ i <= Len(alloc_files)
    /\ LET got == extract_alloc_data_and_meta(alloc_files[i])
       IN  /\ all_dfs' = Append(all_dfs, got.df)
           /\ meta' = MergeMeta(meta, got.meta)
    /\ i' = i + 1
    /\ pc' = IF i = Len(alloc_files) THEN "brief" ELSE "read"
    /\ UNCHANGED <<alloc_files, brief_file, event_code, brief_dict, master_df,
                   buffer, messages, download>>

\* brief_dict = load_consolidated_brief(brief_file), then the update loop
LoadBrief ==
    /\ pc = "brief"
    /\ LET got == load_consolidated_brief(brief_file)
       IN  /\ brief_dict' = got.dict
           /\ messages' = messages \o got.errors
           /\ meta' = MergeMeta(meta, got.dict)
    /\ pc' = "merge"
    /\ UNCHANGED <<alloc_files, brief_file, event_code, i, all_dfs, master_df,
                   buffer, download>>

\* master_df = merge_allocations(all_dfs)
Merge ==
    /\ pc = "merge"
    /\ master_df' = merge_allocations(all_dfs)
    /\ pc' = "write"
    /\ UNCHANGED <<alloc_files, brief_file, event_code, i, all_dfs, meta,
                   brief_dict, buffer, messages, download>>

\* buffer = write_with_metadata(master_df, meta, event_code.strip())
Write ==
    /\ pc = "write"
    /\ buffer' = write_with_metadata(master_df, meta, Strip(event_code))
    /\ pc' = "offer"
    /\ UNCHANGED <<alloc_files, brief_file, event_code, i, all_dfs, meta,
                   brief_dict, master_df, messages, download>>

\* st.success, st.dataframe and st.download_button
Offer ==
    /\ pc = "offer"
    /\ messages' = Append(messages,
                          [kind |-> "success",
                           stores |-> Len(master_df.rows),
                           items |-> Len(master_df.columns) - Len(KEY_COLS)])
    /\ download' = [data |-> buffer,
                    file_name |-> Strip(event_code) \o "_Consolidated_Allocation.xlsx"]
    /\ pc' = "done"
    /\ UNCHANGED <<alloc_files, brief_file, event_code, i, all_dfs, meta,
                   brief_dict, master_df, buffer>>

Next == CheckFiles \/ CheckEvent \/ ReadFile \/ LoadBrief \/ Merge \/ Write \/ Offer

\* ------------------------------------------------------------------ inputs
(***************************************************************************)
(* The uploads a run starts from.  Every export has the fixed layout: the  *)
(* 11 key columns, whole numbers or blanks under Store Number, at least    *)
(* one item column, item reference codes that are texts, no two alike      *)
(* within one export, and numbers or blanks in the overs row.              *)
(***************************************************************************)
MaxFiles == 2
MaxRows == 2
MaxItemCols == 2

\* A body row's key cells: Store Number, Store Name and City or Town vary
KeyCells(store, name, town) ==
    [c \in KeySet |->
        CASE c = "Store Number" -> store
          [] c = "Store Name" -> name
          [] c = "City or Town" -> town
          [] OTHER -> NaN]

\* Body rows of an export with one item column
BodyRows ==
    { [key |-> KeyCells(Num(1), Txt("A"), NaN), item |-> << Num(5) >>],
      [key |-> KeyCells(Num(1), Txt("B"), Txt("T")), item |-> << Num(3) >>],
      [key |-> KeyCells(Num(1), NaN, Txt("U")), item |-> << Txt("x") >>],
      [key |-> KeyCells(Num(2), Txt("A"), NaN), item |-> << Num(3) >>],
      [key |-> KeyCells(Num(10), NaN, Txt("T")), item |-> << NaN >>],
      [key |-> KeyCells(Num(10), Txt("B"), NaN), item |-> << Num(5) >>],
      [key |-> KeyCells(NaN, Txt("B"), NaN), item |-> << Num(3) >>] }

\* Item columns of an export: reference cell, description cell, overs cell
ItemColumns ==
    { [ref |-> Txt("X001"), desc |-> Txt("d1"), overs |-> Num(2)],
      [ref |-> Txt("X001"), desc |-> Txt("d2"), overs |-> Num(4)],
      [ref |-> Txt("X001"), desc |-> NaN, overs |-> NaN],
      [ref |-> Txt("X002"), desc |-> Txt("d1"), overs |-> NaN],
      [ref |-> NaN, desc |-> Txt("d1"), overs |-> Num(2)] }

SeqsUpTo(S, n) == UNION {[1..k -> S] : k \in 0..n}

\* Every way to give n files sequences over S of at most budget elements in all
RECURSIVE Allot(_, _, _)
Allot(S, n, budget) ==
    IF n = 0 THEN {<<>>}
    ELSE UNION {{<< b >> \o rest : rest \in Allot(S, n - 1, budget - Len(b))} :
                   b \in SeqsUpTo(S, budget)}

DistinctRefs(cols) ==
    \A a, b \in DOMAIN cols :
        (a # b /\ ~IsNull(cols[a].ref)) => cols[a].ref # cols[b].ref

\* An export of the given item columns and body rows
Export(cols, body) ==
    [header_row |-> [j \in DOMAIN cols |-> cols[j].ref],
     brief_row |-> [j \in DOMAIN cols |-> cols[j].desc],
     overs_row |-> [j \in DOMAIN cols |-> cols[j].overs],
     body |-> body]

\* Exports that differ in their rows: file 1 has item X001, the later files
\* one item column with the header h
TableUpload(n, h, bodies) ==
    [k \in 1..n |->
        Export(<< [ref |-> IF k = 1 THEN Txt("X001") ELSE h,
                   desc |-> Txt("d1"), overs |-> Num(2)] >>, bodies[k])]

\* Exports that differ in their item columns: file k has one row, store k,
\* with k + 2 in every item column
ColumnUpload(n, cols) ==
    [k \in 1..n |->
        Export(cols[k],
               << [key |-> KeyCells(Num(k), Txt("A"), NaN),
                   item |-> [j \in DOMAIN cols[k] |-> Num(k + 2)]] >>)]

\* A consolidated brief sheet (header=1) of the given columns; each row is a
\* reference cell and the text its four fields start with
BriefSheet(columns, rows) ==
    [columns |-> columns,
     rows |-> [k \in DOMAIN rows |->
                 [c \in SeqToSet(columns) |->
                     IF c = "Brief Ref" THEN rows[k][1]
                     ELSE IF c = "Part" /\ rows[k][2] = "q" THEN NaN
                     ELSE Txt(rows[k][2] \o " " \o c)]]]

BriefUploads ==
    { NoneVal,
      BriefSheet(BRIEF_COLS, << <<Txt("X001"), "p">> >>),
      BriefSheet(BRIEF_COLS, << <<Txt(" X001 "), "p">>, <<Txt("X001"), "q">> >>),
      BriefSheet(BRIEF_COLS, << <<Txt("Z999"), "q">> >>),
      BriefSheet(BRIEF_COLS, << <<Txt("X002 "), "q">>, <<Txt("Z999"), "p">> >>),
      BriefSheet(BRIEF_COLS, << <<NaN, "p">>, <<Txt("X001"), "q">> >>),
      BriefSheet(<< "Brief Ref", "Project Description", "Part", "Supplier" >>,
                 << <<Txt("X001"), "p">> >>),
      BriefSheet(<< "Brief Ref", "POS Code", "Notes" >>, << <<Txt("X001"), "p">> >>),
      BriefSheet(<< "Notes" >>, << >>) }

EventCodes == { "", " ", "  ", "E0625", " E0625 " }

Init ==
    /\ \/ /\ \E n \in 1..MaxFiles, h \in {Txt("X001"), Txt("X002"), NaN} :
                \E bodies \in Allot(BodyRows, n, MaxRows) :
                    alloc_files = TableUpload(n, h, bodies)
          /\ brief_file = NoneVal
          /\ event_code = "E0625"
       \/ /\ \E n \in 1..MaxFiles :
                \E cols \in Allot(ItemColumns, n, MaxItemCols) :
                    /\ \A k \in 1..n : cols[k] # <<>> /\ DistinctRefs(cols[k])
                    /\ alloc_files = ColumnUpload(n, cols)
          /\ brief_file \in BriefUploads
          /\ event_code = "E0625"
       \/ /\ alloc_files \in
                 {<<>>} \cup {TableUpload(1, NaN, << b >>) : b \in SeqsUpTo(BodyRows, 1)}
          /\ brief_file \in { NoneVal,
                              BriefSheet(BRIEF_COLS, << <<Txt("X001"), "p">> >>) }
          /\ event_code \in EventCodes
    /\ pc = "check_files"
    /\ i = 1
    /\ all_dfs = <<>>
    /\ meta = EmptyDict
    /\ brief_dict = EmptyDict
    /\ master_df = NoneVal
    /\ buffer = NoneVal
    /\ messages = <<>>
    /\ download = NoneVal

Spec == Init /\ [][Next]_vars

\* ------------------------------------------------------------------ properties

Merged == pc \in {"write", "offer", "done"}
Written == pc \in {"offer", "done"}

\* The (file, row) positions of the tables handed to merge_allocations, and
\* the upload order on them: file order, then row order
Positions == UNION {{<< f, k >> : k \in DOMAIN all_dfs[f].rows} : f \in DOMAIN all_dfs}
InputRow(p) == all_dfs[p[1]].rows[p[2]]
Before(p, q) == p[1] < q[1] \/ (p[1] = q[1] /\ p[2] < q[2])
StoreOf(row) == row["Store Number"]

\* The sum of the values of a function of finite domain
RECURSIVE SumOver(_)
SumOver(f) ==
    IF DOMAIN f = {} THEN 0
    ELSE LET x == CHOOSE y \in DOMAIN f : TRUE
         IN  f[x] + SumOver([y \in (DOMAIN f) \ {x} |-> f[y]])

\* C1: after the merge, no Store Number appears in two rows of the merged
\* table, and the Store Numbers of the merged table are exactly the Store
\* Numbers of the rows of the input tables.
C1_OneRowPerStore ==
    Merged =>
        /\ \A a, b \in DOMAIN master_df.rows :
               a # b => StoreOf(master_df.rows[a]) # StoreOf(master_df.rows[b])
        /\ {StoreOf(master_df.rows[a]) : a \in DOMAIN master_df.rows}
               = {StoreOf(InputRow(p)) : p \in Positions}

\* A store that two files hold and a row with a blank Store Number were merged
C1_Witness ==
    /\ Merged
    /\ \E p, q \in Positions : p[1] # q[1] /\ StoreOf(InputRow(p)) = StoreOf(InputRow(q))
    /\ \E a \in DOMAIN master_df.rows :
           StoreOf(master_df.rows[a]) = Str(<< "n", "a", "n" >>)

\* The number a cell of item column c adds to a sum: 0 when the row's table
\* has no column c, or the cell is blank or holds a text
Contribution(p, c) ==
    IF c \in DOMAIN InputRow(p) /\ InputRow(p)[c].t = "num" THEN InputRow(p)[c].n ELSE 0

\* C2: every item cell (s, c) of the merged table is the sum, over the input
\* rows of every file whose Store Number is s, of the numeric values of c,
\* a missing or non-numeric cell counting as 0.
C2_ItemSums ==
    Merged =>
        \A a \in DOMAIN master_df.rows : \A c \in SeqToSet(item_cols(master_df)) :
            master_df.rows[a][c] =
                Num(SumOver([p \in {q \in Positions :
                                        StoreOf(InputRow(q)) = StoreOf(master_df.rows[a])}
                                |-> Contribution(p, c)]))

\* File A store 1 X001=5 and File B store 1 X001=3 were merged to X001=8
C2_Witness ==
    /\ Merged
    /\ Len(all_dfs) = 2
    /\ "X001" \in SeqToSet(all_dfs[2].columns)
    /\ \E k \in DOMAIN all_dfs[1].rows :
           /\ StoreOf(all_dfs[1].rows[k]) = Str(<< "1" >>)
           /\ all_dfs[1].rows[k]["X001"] = Num(5)
    /\ \E k \in DOMAIN all_dfs[2].rows :
           /\ StoreOf(all_dfs[2].rows[k]) = Str(<< "1" >>)
           /\ all_dfs[2].rows[k]["X001"] = Num(3)
    /\ \E a \in DOMAIN master_df.rows :
           /\ StoreOf(master_df.rows[a]) = Str(<< "1" >>)
           /\ master_df.rows[a]["X001"] = Num(8)

\* C3: every key field k other than Store Number of the merged row of store s
\* is the first non-null value of k among the input rows of s in upload order
\* (file order, then row order), and null when no such row has one.
C3_KeyFirstNonNull ==
    Merged =>
        \A a \in DOMAIN master_df.rows : \A k \in KeySet \ {"Store Number"} :
            LET mine == {p \in Positions :
                            StoreOf(InputRow(p)) = StoreOf(master_df.rows[a])}
                set == {p \in mine : ~IsNull(InputRow(p)[k])}
            IN  IF set = {} THEN IsNull(master_df.rows[a][k])
                ELSE \E p \in set :
                        /\ \A q \in set \ {p} : Before(p, q)
                        /\ master_df.rows[a][k] = InputRow(p)[k]

\* The first file has Store Name A for a store, a later file has B: A is kept
C3_Witness ==
    /\ Merged
    /\ \E p, q \in Positions, a \in DOMAIN master_df.rows :
           /\ p[1] < q[1]
           /\ StoreOf(InputRow(p)) = StoreOf(InputRow(q))
           /\ StoreOf(master_df.rows[a]) = StoreOf(InputRow(p))
           /\ InputRow(p)["Store Name"] = Txt("A")
           /\ InputRow(q)["Store Name"] = Txt("B")
           /\ master_df.rows[a]["Store Name"] = Txt("A")

\* The header cells of the written sheet, by label and item position
LabelRow(label) == 1 + (CHOOSE r \in DOMAIN LABELS : LABELS[r] = label)
Cell(label, ic) == buffer.item_cells[LabelRow(label)][ic]

\* C4: in the written workbook, for every item column, Total Allocations is
\* the sum of that column over the rows of the merged table (a null as 0),
\* Total (inc Overs) is Total Allocations plus the Overs cell of the column,
\* and the Overs cell is 0 for an item without metadata or whose overs cell
\* is blank in every export holding it.
C4_Totals ==
    Written =>
        \A ic \in DOMAIN item_cols(master_df) :
            LET item == item_cols(master_df)[ic]
                holders == {f \in DOMAIN alloc_files :
                               \E j \in DOMAIN alloc_files[f].header_row :
                                   alloc_files[f].header_row[j] = Txt(item)}
            IN  /\ Cell("Total Allocations", ic) =
                       Num(SumOver([a \in DOMAIN master_df.rows |->
                                       IF master_df.rows[a][item].t = "num"
                                       THEN master_df.rows[a][item].n ELSE 0]))
                /\ Cell("Total (inc Overs)", ic) =
                       Num(Cell("Total Allocations", ic).n + Cell("Overs", ic).n)
                /\ item \notin DOMAIN meta => Cell("Overs", ic) = Num(0)
                /\ (\A f \in holders : \A j \in DOMAIN alloc_files[f].header_row :
                        alloc_files[f].header_row[j] = Txt(item)
                            => IsNull(alloc_files[f].overs_row[j]))
                       => Cell("Overs", ic) = Num(0)

\* A workbook with an item of overs 4 allocated to two stores (3 + 4)
C4_Witness ==
    /\ pc = "done"
    /\ \E ic \in DOMAIN item_cols(master_df) :
           /\ Cell("Overs", ic) = Num(4)
           /\ Cell("Total Allocations", ic) = Num(7)
           /\ Cell("Total (inc Overs)", ic) = Num(11)

\* A description or overs value an export supplied: a non-blank cell (a blank
\* overs cell is recorded as 0)
Supplied(v) == ~IsNull(v) /\ v # Num(0)

\* C5 (as claimed): while the exports are read, a brief_description or overs
\* value that an earlier file supplied to the combined metadata is never
\* changed by processing a later file.
C5_FirstFileWins ==
    [][pc = "read" =>
          \A k \in DOMAIN meta : \A f \in DOMAIN meta[k] :
              Supplied(meta[k][f]) => meta'[k][f] = meta[k][f]]_vars

\* C9 (as claimed): consecutive rows of the merged table are in ascending
\* order of Store Number read as a number.
IsNumberText(cs) == cs # << "n", "a", "n" >>

RECURSIVE NumberOf(_)
NumberOf(cs) ==
    IF cs = <<>> \/ Head(cs) = "." THEN 0
    ELSE LET rest == Tail(cs)
             digits == IF \E k \in DOMAIN rest : rest[k] = "."
                       THEN (CHOOSE k \in DOMAIN rest :
                                rest[k] = "." /\ \A m \in 1..(k - 1) : rest[m] # ".") - 1
                       ELSE Len(rest)
         IN  (Ord(Head(cs)) - 48) * (10 ^ digits) + NumberOf(rest)

C9_NumericOrder ==
    Merged =>
        \A a \in 1..(Len(master_df.rows) - 1) :
            LET x == StoreOf(master_df.rows[a]).cs
                y == StoreOf(master_df.rows[a + 1]).cs
            IN  (IsNumberText(x) /\ IsNumberText(y)) => NumberOf(x) < NumberOf(y)

\* C10 (as claimed): the item columns of the merged table are exactly the
\* non-blank reference codes of the item columns of the exports.
C10_ItemColumnsAreRefs ==
    Merged =>
        SeqToSet(item_cols(master_df)) =
            UNION {{alloc_files[f].header_row[j].s :
                       j \in {m \in DOMAIN alloc_files[f].header_row :
                                 ~IsNull(alloc_files[f].header_row[m])}} :
                   f \in DOMAIN alloc_files}

\* An event code that is empty or only whitespace
BlankCode(code) == code \in {"", " ", "  "}

\* C6: without an allocation file, or with a blank event code, the run never
\* gets past the precondition checks: nothing is read, merged, written or
\* offered, and once stopped exactly one message (the info for no file, else
\* the warning for the event code) has been shown; an output workbook or a
\* download exists only in a run with a file and a non-blank event code.
C6_Preconditions ==
    /\ (alloc_files = <<>> \/ BlankCode(event_code)) =>
           /\ pc \in {"check_files", "check_event", "stopped"}
           /\ i = 1 /\ all_dfs = <<>> /\ meta = EmptyDict
           /\ master_df = NoneVal /\ buffer = NoneVal /\ download = NoneVal
           /\ pc = "stopped" =>
                  messages = << [kind |-> IF alloc_files = <<>>
                                          THEN "info" ELSE "warning"] >>
    /\ (buffer # NoneVal \/ download # NoneVal) =>
           (alloc_files # <<>> /\ ~BlankCode(event_code))
    /\ (alloc_files # <<>> /\ ~BlankCode(event_code)) => pc # "stopped"

\* A run with an allocation file and a whitespace event code has stopped
C6_Witness ==
    /\ pc = "stopped"
    /\ alloc_files # <<>>
    /\ event_code = " "
    /\ messages = << [kind |-> "warning"] >>

\* The combined metadata the exports alone give, in upload order
RECURSIVE FilesMeta(_)
FilesMeta(files) ==
    IF files = <<>> THEN EmptyDict
    ELSE MergeMeta(FilesMeta(SubSeq(files, 1, Len(files) - 1)),
                   MetaPart(files[Len(files)]))

BriefLacksColumns ==
    /\ brief_file # NoneVal
    /\ \E c \in SeqToSet(BRIEF_COLS) : c \notin SeqToSet(brief_file.columns)

\* C7: with a brief that lacks a required column, once the brief is loaded
\* the one message shown names exactly the required columns the sheet lacks,
\* each once, the brief mapping is empty, the combined metadata is that of
\* the exports alone, the run is not stopped, and in the written workbook the
\* POS Code, Project Description, Part and Supplier cells of every item
\* column are blank.
C7_BriefMissingColumns ==
    (BriefLacksColumns /\ pc \in {"merge", "write", "offer", "done"}) =>
        /\ brief_dict = EmptyDict
        /\ Len(messages) >= 1
        /\ messages[1].kind = "error"
        /\ SeqToSet(messages[1].missing) =
               {c \in SeqToSet(BRIEF_COLS) : c \notin SeqToSet(brief_file.columns)}
        /\ Len(messages[1].missing) = Cardinality(SeqToSet(messages[1].missing))
        /\ \A m \in 2..Len(messages) : messages[m].kind = "success"
        /\ meta = FilesMeta(alloc_files)
        /\ Merged => master_df # NoneVal
        /\ Written =>
               /\ buffer # NoneVal
               /\ \A ic \in DOMAIN item_cols(master_df) :
                      \A label \in {"POS Code", "Project Description", "Part", "Supplier"} :
                          Cell(label, ic) = Txt("")

\* A run whose brief lacks POS Code (and only it) ended with a workbook
C7_Witness ==
    /\ pc = "done"
    /\ BriefLacksColumns
    /\ messages[1] = [kind |-> "error", missing |-> << "POS Code" >>]
    /\ download # NoneVal
    /\ item_cols(master_df) # <<>>

\* The brief sheet without the rows of reference r
BriefWithout(brief, r) ==
    [brief EXCEPT !.rows =
        SelectSeq(brief.rows,
                  LAMBDA row : IsNull(row["Brief Ref"]) \/ Strip(PyStr(row["Brief Ref"])) # r)]

\* The merged table and the workbook of a run over the given uploads
MasterOf(files) ==
    merge_allocations([f \in DOMAIN files |-> extract_alloc_data_and_meta(files[f]).df])
OutputOf(files, brief, code) ==
    write_with_metadata(MasterOf(files),
                        MergeMeta(FilesMeta(files), load_consolidated_brief(brief).dict),
                        Strip(code))

\* The references the brief mapping holds that are no item reference of any export
Orphans ==
    {r \in DOMAIN brief_dict :
        \A f \in DOMAIN alloc_files : \A j \in DOMAIN alloc_files[f].header_row :
            alloc_files[f].header_row[j] # Txt(r)}

\* C8: a reference of the brief that no export holds is in the combined
\* metadata, and the merged table and the written workbook (its columns,
\* header block and data table) are those of the run whose brief has no row
\* of that reference; no column of the merged table bears the reference.
C8_OrphanReference ==
    pc = "done" =>
        \A r \in Orphans :
            /\ r \in DOMAIN meta
            /\ r \notin SeqToSet(master_df.columns)
            /\ Len(buffer.item_cells[2]) = Len(item_cols(master_df))
            /\ master_df = MasterOf(alloc_files)
            /\ buffer = OutputOf(alloc_files, BriefWithout(brief_file, r), event_code)

\* A run whose brief holds Z999, a reference of no export, ended
C8_Witness ==
    /\ pc = "done"
    /\ "Z999" \in Orphans
    /\ "Z999" \in DOMAIN meta
    /\ "X002" \in DOMAIN brief_dict

====
